---------------------------- MODULE Spec2Model ----------------------------
(***************************************************************************)
(* BaseWindow<T> (src/cascadia/WindowsTerminal/BaseWindow.h): the window   *)
(* procedure, the message dispatch, the DPI change handler, the title      *)
(* update and the physical-to-logical size conversion, as a state machine  *)
(* of one instance and the one native window it is created for.            *)
(***************************************************************************)
EXTENDS Integers, Sequences, FiniteSets

(***************************************************************************)
(* Window messages and WM_SIZE kinds, with their Win32 values.             *)
(***************************************************************************)
WM_DESTROY == 2
WM_SIZE == 5
WM_NCCREATE == 129
WM_DPICHANGED == 736
WM_USER == 1024
CM_UPDATE_TITLE == WM_USER

SIZE_RESTORED == 0
SIZE_MINIMIZED == 1
SIZE_MAXIMIZED == 2

USER_DEFAULT_SCREEN_DPI == 96

\* WM_SIZE kinds the switch leaves to its default: SIZE_MAXSHOW, SIZE_MAXHIDE.
SizeOther == {3, 4}
SizeKinds == {SIZE_RESTORED, SIZE_MINIMIZED, SIZE_MAXIMIZED} \cup SizeOther

\* Messages none of the cases names.  CreateWindow sends WM_GETMINMAXINFO (36)
\* before WM_NCCREATE; WM_PAINT (15) and WM_WINDOWPOSCHANGED (71) come to a
\* created window, the second from inside SetWindowPos.
BeforeCreateMessages == {36}
OtherMessages == {15}
ResizeMessages == {71}

(***************************************************************************)
(* Bounds of the model.                                                    *)
(***************************************************************************)
\* CM_UPDATE_TITLE messages the queue holds at once.
MaxPosted == 2
\* Quit messages counted.
MaxQuit == 1
\* Messages the resize inside HandleDpiChange delivers re-entrantly.
MaxNested == 1
\* Physical sides are drawn from SideBase .. SideBase + MaxSideStep (and 0).
MaxSideStep == 1

SideBase == 100
Sides == {0} \cup (SideBase .. SideBase + MaxSideStep)

\* 100 %, 125 %, 150 % and 200 % scaling.
Dpis == {96, 120, 144, 192}
\* The DPIs of the monitors the window is created on and moved between.
MonitorDpis == {96, 144}

Titles == {"a", "b"}
InitialText == "lpWindowName"

NullHwnd == "nullptr"
TheWindow == "hwnd"
That == "that"

(***************************************************************************)
(* Words.                                                                  *)
(***************************************************************************)
LOWORD(l) == l % 65536
HIWORD(l) == (l \div 65536) % 65536
MAKELONG(lo, hi) == (lo % 65536) + 65536 * (hi % 65536)

(***************************************************************************)
(* IEEE-754 binary32 arithmetic on non-negative values, round to nearest,  *)
(* ties to even.  A float is [m, e], the value m * 2^e, kept canonical     *)
(* (m odd, or m = 0 and e = 0) so that equal values are equal records.     *)
(***************************************************************************)
RECURSIVE Pow2(_)
Pow2(n) == IF n = 0 THEN 1 ELSE 2 * Pow2(n - 1)

RECURSIVE Canon(_, _)
Canon(m, e) ==
  IF m = 0 THEN [m |-> 0, e |-> 0]
  ELSE IF m % 2 = 0 THEN Canon(m \div 2, e + 1)
  ELSE [m |-> m, e |-> e]

\* The 24-bit significand form: m in [2^23, 2^24).
RECURSIVE Norm24(_, _)
Norm24(m, e) == IF m >= Pow2(23) THEN [m |-> m, e |-> e] ELSE Norm24(2 * m, e - 1)

RECURSIVE ShiftFor(_)
ShiftFor(n) == IF n < Pow2(24) THEN 0 ELSE 1 + ShiftFor(n \div 2)

\* (n + a fraction below 1, nonzero iff sticky) * 2^e, rounded to 24 bits.
RoundNearestEven(n, sticky, e) ==
  LET s == ShiftFor(n)
  IN  IF s = 0 THEN Canon(n, e)
      ELSE LET q == n \div Pow2(s)
               r == n % Pow2(s)
               half == Pow2(s - 1)
               up == r > half \/ (r = half /\ (sticky \/ q % 2 = 1))
           IN  Canon(IF up THEN q + 1 ELSE q, e + s)

\* static_cast<float>(n), n >= 0.
FloatFromInt(n) == RoundNearestEven(n, FALSE, 0)

\* k more quotient bits of r / d, after the quotient q.
RECURSIVE LongDiv(_, _, _, _)
LongDiv(r, d, k, q) ==
  IF k = 0 THEN [q |-> q, r |-> r]
  ELSE IF 2 * r >= d THEN LongDiv(2 * r - d, d, k - 1, 2 * q + 1)
  ELSE LongDiv(2 * r, d, k - 1, 2 * q)

\* a / b in binary32, b > 0.
FloatDiv(a, b) ==
  IF a.m = 0 THEN Canon(0, 0)
  ELSE LET A == Norm24(a.m, a.e)
           B == Norm24(b.m, b.e)
           ge == A.m >= B.m
           steps == IF ge THEN 23 ELSE 24
           d == IF ge THEN LongDiv(A.m - B.m, B.m, steps, 1)
                ELSE LongDiv(A.m, B.m, steps, 0)
           up == 2 * d.r > B.m \/ (2 * d.r = B.m /\ d.q % 2 = 1)
       IN  Canon(IF up THEN d.q + 1 ELSE d.q, (A.e - B.e) - steps)

\* a + b in binary32.
FloatAdd(a, b) ==
  IF a.m = 0 THEN b
  ELSE IF b.m = 0 THEN a
  ELSE LET A0 == Norm24(a.m, a.e)
           B0 == Norm24(b.m, b.e)
           A == IF A0.e >= B0.e THEN A0 ELSE B0
           B == IF A0.e >= B0.e THEN B0 ELSE A0
           d == A.e - B.e
       IN  IF d > 26 THEN Canon(A.m, A.e)
           ELSE LET small == B.m * 8
                    sh == small \div Pow2(d)
                    sticky == small % Pow2(d) # 0
                IN  RoundNearestEven(A.m * 8 + sh, sticky, A.e - 3)

\* 0.5f
HalfF == Canon(1, -1)

VARIABLES
  _window,        \* wil::unique_hwnd _window
  _currentDpi,    \* unsigned int _currentDpi
  _inDpiChange,   \* bool _inDpiChange
  _title,         \* std::wstring _title
  _minimized,     \* bool _minimized
  userData,       \* GWLP_USERDATA of the window
  osCreated,      \* the system has sent the window its WM_NCCREATE
  osDpi,          \* what GetDpiForWindow answers
  hasChild,       \* GetWindow(hWnd, GW_CHILD) != nullptr
  clientRect,     \* what GetClientRect answers
  windowPos,      \* the window's position and size, as SetWindowPos set it
  windowText,     \* the window's text
  posted,         \* CM_UPDATE_TITLE messages in the queue
  quitPosted,     \* quit messages posted
  assertFailed,   \* a WINRT_ASSERT found its condition false
  pc,             \* where the running HandleDpiChange stands
  frame,          \* the WM_DPICHANGED being handled
  nested,         \* messages delivered inside the running SetWindowPos
  announcedDpi,   \* the DPI the system last told the window of
  titleArg,       \* the argument of the last UpdateTitle on the created window
  done,           \* the last completed operation
  logical         \* the last GetLogicalSize call

vars == <<_window, _currentDpi, _inDpiChange, _title, _minimized, userData,
          osCreated, osDpi, hasChild, clientRect, windowPos, windowText,
          posted, quitPosted, assertFailed, pc, frame, nested, announcedDpi,
          titleArg, done, logical>>


(***************************************************************************)
(* Messages.  lparam is a number: for WM_SIZE the two sides packed into    *)
(* words, for WM_DPICHANGED the address of the suggested RECT (an index    *)
(* into Rects), for WM_NCCREATE the address of the CREATESTRUCT whose      *)
(* lpCreateParams is the instance.                                         *)
(***************************************************************************)
Msg(message, wparam, lparam) ==
  [message |-> message, wparam |-> wparam, lparam |-> lparam]

Rects == << [left |-> 10, top |-> 20, right |-> 460, bottom |-> 320] >>

NullPtr == "null"
NoMsg == Msg(0, 0, 0)
NoHooks == << >>

\* LRESULTs: the 0 the handler returns itself, and what DefWindowProc
\* answers for a message (not known here, so it is named by the message).
Zero == [by |-> "return 0", of |-> NoMsg]
DefWindowProc(msg) == [by |-> "DefWindowProc", of |-> msg]

\* The instance's fields and the window's state, as one record.
Cur ==
  [window |-> _window, dpi |-> _currentDpi, inDpi |-> _inDpiChange,
   title |-> _title, minimized |-> _minimized, userData |-> userData,
   osDpi |-> osDpi, hasChild |-> hasChild, pos |-> windowPos,
   text |-> windowText, posted |-> posted, quit |-> quitPosted]

Assign(s) ==
  /\ _window' = s.window
  /\ _currentDpi' = s.dpi
  /\ _inDpiChange' = s.inDpi
  /\ _title' = s.title
  /\ _minimized' = s.minimized
  /\ userData' = s.userData
  /\ osDpi' = s.osDpi
  /\ hasChild' = s.hasChild
  /\ windowPos' = s.pos
  /\ windowText' = s.text
  /\ posted' = s.posted
  /\ quitPosted' = s.quit

\* A call of a subclass hook, with what the hook can read of the instance.
Hook(fn, width, height, s) ==
  [fn |-> fn, width |-> width, height |-> height,
   inDpi |-> s.inDpi, dpi |-> s.dpi]

\* What one call of WndProc did.
Outcome(s, hooks, ret, def, handler, assert) ==
  [s |-> s, hooks |-> hooks, ret |-> ret, def |-> def, handler |-> handler,
   assert |-> assert]

\* The record of a completed operation.
Op(kind, msg, arg, pre, post, hooks, ret, def, handler, inner) ==
  [kind |-> kind, msg |-> msg, arg |-> arg, pre |-> pre, post |-> post,
   hooks |-> hooks, ret |-> ret, def |-> def, handler |-> handler,
   inner |-> inner]

NoSize == [cx |-> 0, cy |-> 0]
NoLogical == [call |-> "none", arg |-> NoSize, dpi |-> 0,
              result |-> [Width |-> Canon(0, 0), Height |-> Canon(0, 0)]]

(***************************************************************************)
(* The code.                                                               *)
(***************************************************************************)
\* A lookup that answers the instance whether or not it was associated.
GetThisFromHandleAlways(s) == That

GetThisFromHandle(s) == s.userData

\* case WM_SIZE with the hooks forwarded on every message, not on the edges.
OnSizeEveryTime(s, wparam, lparam) ==
  LET width == LOWORD(lparam)
      height == HIWORD(lparam)
  IN  IF wparam = SIZE_MAXIMIZED \/ wparam = SIZE_RESTORED
      THEN LET s1 == [s EXCEPT !.minimized = FALSE]
           IN  [s |-> s1,
                hooks |-> << Hook("OnRestore", 0, 0, s1),
                             Hook("OnResize", width, height, s1) >>]
      ELSE IF wparam = SIZE_MINIMIZED
      THEN LET s1 == [s EXCEPT !.minimized = TRUE]
           IN  [s |-> s1, hooks |-> << Hook("OnMinimize", 0, 0, s1) >>]
      ELSE [s |-> s, hooks |-> NoHooks]

\* case WM_SIZE with the resize in the else of the restore: none on the way
\* out of the minimized state.
OnSizeResizeElse(s, wparam, lparam) ==
  LET width == LOWORD(lparam)
      height == HIWORD(lparam)
  IN  IF wparam = SIZE_MAXIMIZED \/ wparam = SIZE_RESTORED
      THEN IF s.minimized
           THEN LET s1 == [s EXCEPT !.minimized = FALSE]
                IN  [s |-> s1, hooks |-> << Hook("OnRestore", 0, 0, s1) >>]
           ELSE [s |-> s, hooks |-> << Hook("OnResize", width, height, s) >>]
      ELSE IF wparam = SIZE_MINIMIZED
      THEN IF ~s.minimized
           THEN LET s1 == [s EXCEPT !.minimized = TRUE]
                IN  [s |-> s1, hooks |-> << Hook("OnMinimize", 0, 0, s1) >>]
           ELSE [s |-> s, hooks |-> NoHooks]
      ELSE [s |-> s, hooks |-> NoHooks]

\* case WM_SIZE of MessageHandler: the fields after it and the hooks called.
OnSize(s, wparam, lparam) ==
  LET width == LOWORD(lparam)
      height == HIWORD(lparam)
  IN  IF wparam = SIZE_MAXIMIZED \/ wparam = SIZE_RESTORED
      THEN LET s1 == IF s.minimized THEN [s EXCEPT !.minimized = FALSE] ELSE s
               restore == IF s.minimized
                          THEN << Hook("OnRestore", 0, 0, s1) >>
                          ELSE NoHooks
           IN  [s |-> s1,
                hooks |-> restore \o << Hook("OnResize", width, height, s1) >>]
      ELSE IF wparam = SIZE_MINIMIZED
      THEN IF ~s.minimized
           THEN LET s1 == [s EXCEPT !.minimized = TRUE]
                IN  [s |-> s1, hooks |-> << Hook("OnMinimize", 0, 0, s1) >>]
           ELSE [s |-> s, hooks |-> NoHooks]
      ELSE [s |-> s, hooks |-> NoHooks]

\* case WM_DESTROY without its return: it falls to the DefWindowProc below.
OnDestroyFallThrough(s) ==
  Outcome([s EXCEPT !.quit = @ + 1], NoHooks,
          DefWindowProc(Msg(WM_DESTROY, 0, 0)), TRUE, TRUE, FALSE)

\* case WM_DESTROY of MessageHandler.
OnDestroy(s) ==
  Outcome([s EXCEPT !.quit = @ + 1], NoHooks, Zero, FALSE, TRUE, FALSE)

\* case CM_UPDATE_TITLE of MessageHandler: SetWindowTextW, then the break.
OnUpdateTitle(s, msg) ==
  Outcome([s EXCEPT !.text = s.title], NoHooks, DefWindowProc(msg), TRUE, TRUE,
          FALSE)

\* MessageHandler, every case but WM_DPICHANGED (which is HandleDpiChange,
\* the actions below).
MessageHandler(s, msg) ==
  IF msg.message = WM_DESTROY THEN OnDestroy(s)
  ELSE IF msg.message = WM_SIZE
  THEN LET r == OnSize(s, msg.wparam, msg.lparam)
       IN  Outcome(r.s, r.hooks, DefWindowProc(msg), TRUE, TRUE, FALSE)
  ELSE IF msg.message = CM_UPDATE_TITLE THEN OnUpdateTitle(s, msg)
  ELSE Outcome(s, NoHooks, DefWindowProc(msg), TRUE, TRUE, FALSE)

\* The WM_NCCREATE branch without the assertion on _window.
OnNcCreateUnchecked(s, msg) ==
  Outcome([s EXCEPT !.window = TheWindow, !.userData = That, !.dpi = s.osDpi],
          NoHooks, DefWindowProc(msg), TRUE, FALSE, FALSE)

\* The WM_NCCREATE branch of WndProc.
OnNcCreate(s, msg) ==
  Outcome([s EXCEPT !.window = TheWindow, !.userData = That, !.dpi = s.osDpi],
          NoHooks, DefWindowProc(msg), TRUE, FALSE, s.window # NullHwnd)

\* Whether WndProc passes the message to MessageHandler.
Routed(s, msg) ==
  msg.message # WM_NCCREATE /\ GetThisFromHandle(s) # NullPtr

WndProc(s, msg) ==
  IF msg.message = WM_NCCREATE THEN OnNcCreate(s, msg)
  ELSE IF GetThisFromHandle(s) # NullPtr THEN MessageHandler(s, msg)
  ELSE Outcome(s, NoHooks, DefWindowProc(msg), TRUE, FALSE, FALSE)

GetCurrentDpiScale ==
  FloatDiv(FloatFromInt(osDpi), FloatFromInt(USER_DEFAULT_SCREEN_DPI))

GetPhysicalSize ==
  [cx |-> clientRect.right - clientRect.left,
   cy |-> clientRect.bottom - clientRect.top]

GetLogicalSize(physicalSize) ==
  LET scale == GetCurrentDpiScale
      logicalWidth == FloatAdd(FloatDiv(FloatFromInt(physicalSize.cx), scale), HalfF)
      logicalHeigth == FloatAdd(FloatDiv(FloatFromInt(physicalSize.cy), scale), HalfF)
  IN  [Width |-> logicalWidth, Height |-> logicalHeigth]

GetLogicalSizeOfClient == GetLogicalSize(GetPhysicalSize)

(***************************************************************************)
(* The state after construction: the member initialisers, and a window     *)
(* the system has not created yet.                                         *)
(***************************************************************************)
ZeroRect == [left |-> 0, top |-> 0, right |-> 0, bottom |-> 0]
NoPos == [x |-> 0, y |-> 0, cx |-> 0, cy |-> 0]
NoTitle == ""

Fresh ==
  [window |-> NullHwnd, dpi |-> 0, inDpi |-> FALSE, title |-> NoTitle,
   minimized |-> FALSE, userData |-> NullPtr, osDpi |-> 0, hasChild |-> FALSE,
   pos |-> NoPos, text |-> InitialText, posted |-> 0, quit |-> 0]

NoFrame == [msg |-> NoMsg, uDpi |-> 0, pre |-> Fresh]

NoOp ==
  Op("none", NoMsg, NoTitle, Fresh, Fresh, NoHooks, Zero, FALSE, FALSE, FALSE)

Init ==
  /\ _window = NullHwnd
  /\ _currentDpi = 0
  /\ _inDpiChange = FALSE
  /\ _title = NoTitle
  /\ _minimized = FALSE
  /\ userData = NullPtr
  /\ osCreated = FALSE
  /\ osDpi \in MonitorDpis
  /\ hasChild = FALSE
  /\ clientRect = ZeroRect
  /\ windowPos = NoPos
  /\ windowText = InitialText
  /\ posted = 0
  /\ quitPosted = 0
  /\ assertFailed = FALSE
  /\ pc = "idle"
  /\ frame = NoFrame
  /\ nested = 0
  /\ announcedDpi = 0
  /\ titleArg = NoTitle
  /\ done = NoOp
  /\ logical = NoLogical

(***************************************************************************)
(* The system calls WndProc.  A call that does not enter HandleDpiChange   *)
(* runs to its return in one step.                                         *)
(***************************************************************************)
\* The client sizes WM_SIZE reports: nothing, and each width with one height.
MsgSizes == {<<0, 0>>} \cup {<<w, SideBase>> : w \in Sides \ {0}}
SizeMsgs ==
  { Msg(WM_SIZE, k, MAKELONG(sz[1], sz[2])) : k \in SizeKinds, sz \in MsgSizes }

\* One whole call WndProc(window, msg), from the state s.
Call(s, msg, inner) ==
  LET r == WndProc(s, msg)
  IN  /\ Assign(r.s)
      /\ assertFailed' = (assertFailed \/ r.assert)
      /\ done' = Op("WndProc", msg, NoTitle, s, r.s, r.hooks, r.ret, r.def,
                    r.handler, inner)

\* CreateWindow: the one WM_NCCREATE of the window.
SendNcCreate ==
  /\ pc = "idle"
  /\ ~osCreated
  /\ Call(Cur, Msg(WM_NCCREATE, 0, 0), FALSE)
  /\ osCreated' = TRUE
  /\ announcedDpi' = osDpi
  /\ UNCHANGED <<clientRect, pc, frame, nested, titleArg, logical>>

\* CreateWindow sends WM_GETMINMAXINFO before WM_NCCREATE.
SendBeforeCreate ==
  /\ pc = "idle"
  /\ ~osCreated
  /\ \E m \in BeforeCreateMessages : Call(Cur, Msg(m, 0, 0), FALSE)
  /\ UNCHANGED <<osCreated, clientRect, pc, frame, nested, announcedDpi, titleArg,
                 logical>>

SendSize ==
  /\ pc = "idle"
  /\ osCreated
  /\ \E msg \in SizeMsgs : Call(Cur, msg, FALSE)
  /\ UNCHANGED <<osCreated, clientRect, pc, frame, nested, announcedDpi, titleArg,
                 logical>>

SendDestroy ==
  /\ pc = "idle"
  /\ osCreated
  /\ quitPosted < MaxQuit
  /\ Call(Cur, Msg(WM_DESTROY, 0, 0), FALSE)
  /\ UNCHANGED <<osCreated, clientRect, pc, frame, nested, announcedDpi, titleArg,
                 logical>>

SendOther ==
  /\ pc = "idle"
  /\ osCreated
  /\ \E m \in OtherMessages :
       Call(Cur, Msg(m, 0, 0), FALSE)
  /\ UNCHANGED <<osCreated, clientRect, pc, frame, nested, announcedDpi, titleArg,
                 logical>>

\* The message loop takes a posted CM_UPDATE_TITLE off the queue.
DispatchUpdateTitle ==
  /\ pc = "idle"
  /\ osCreated
  /\ posted > 0
  /\ Call([Cur EXCEPT !.posted = @ - 1], Msg(CM_UPDATE_TITLE, 0, 0), FALSE)
  /\ UNCHANGED <<osCreated, clientRect, pc, frame, nested, announcedDpi, titleArg,
                 logical>>

(***************************************************************************)
(* HandleDpiChange.  SetWindowPos sends messages to the window procedure   *)
(* before it returns, so the handler is entered, resized in and left in    *)
(* steps of their own.                                                     *)
(***************************************************************************)
\* The handler with the cached DPI set before the resize, not after it.
HandleDpiChangeEnterDpiFirst(s, msg) ==
  /\ Assign([s EXCEPT !.inDpi = TRUE,
                      !.dpi = IF s.hasChild THEN HIWORD(msg.wparam) ELSE @])
  /\ pc' = IF s.hasChild THEN "SetWindowPos" ELSE "leave"
  /\ frame' = [msg |-> msg, uDpi |-> HIWORD(msg.wparam), pre |-> s]

\* Line 107, and the test of line 109.
HandleDpiChangeEnter(s, msg) ==
  /\ Assign([s EXCEPT !.inDpi = TRUE])
  /\ pc' = IF s.hasChild THEN "SetWindowPos" ELSE "leave"
  /\ frame' = [msg |-> msg, uDpi |-> HIWORD(msg.wparam), pre |-> s]

\* The monitor's DPI changes: WM_DPICHANGED with the new DPI in both words
\* of wparam and the suggested rectangle behind lparam.
SendDpiChanged ==
  /\ pc = "idle"
  /\ osCreated
  /\ \E d \in MonitorDpis \ {osDpi}, a \in 1..Len(Rects) :
       LET msg == Msg(WM_DPICHANGED, MAKELONG(d, d), a)
           s == [Cur EXCEPT !.osDpi = d]
       IN  IF Routed(s, msg)
           THEN /\ HandleDpiChangeEnter(s, msg)
                /\ done' = Op("enter", msg, NoTitle, s, [s EXCEPT !.inDpi = TRUE],
                              NoHooks, Zero, FALSE, TRUE, FALSE)
                /\ UNCHANGED assertFailed
           ELSE /\ Call(s, msg, FALSE)
                /\ UNCHANGED <<pc, frame>>
  /\ UNCHANGED <<osCreated, clientRect, nested, announcedDpi, titleArg, logical>>

\* A message SetWindowPos sends while HandleDpiChange waits for it.
SendInsideSetWindowPos ==
  /\ pc = "SetWindowPos"
  /\ nested < MaxNested
  /\ \E msg \in SizeMsgs \cup {Msg(m, 0, 0) : m \in ResizeMessages} :
       Call(Cur, msg, TRUE)
  /\ nested' = nested + 1
  /\ UNCHANGED <<osCreated, clientRect, pc, frame, announcedDpi, titleArg,
                 logical>>

\* Lines 116 and 118: SetWindowPos returns, then the cached DPI is set.
SetWindowPosReturn ==
  /\ pc = "SetWindowPos"
  /\ LET lprcNewScale == Rects[frame.msg.lparam]
     IN  windowPos' = [x |-> lprcNewScale.left, y |-> lprcNewScale.top,
                       cx |-> lprcNewScale.right - lprcNewScale.left,
                       cy |-> lprcNewScale.bottom - lprcNewScale.top]
  /\ _currentDpi' = frame.uDpi
  /\ pc' = "leave"
  /\ UNCHANGED <<_window, _inDpiChange, _title, _minimized, userData,
                 osCreated, osDpi, hasChild, clientRect, windowText, posted,
                 quitPosted, assertFailed, frame, nested, announcedDpi,
                 titleArg, done, logical>>

\* Lines 120 and 121.
HandleDpiChangeLeave ==
  /\ pc = "leave"
  /\ _inDpiChange' = FALSE
  /\ pc' = "idle"
  /\ frame' = NoFrame
  /\ nested' = 0
  /\ announcedDpi' = HIWORD(frame.msg.wparam)
  /\ done' = Op("WndProc", frame.msg, NoTitle, frame.pre,
                [Cur EXCEPT !.inDpi = FALSE], NoHooks, Zero, FALSE, TRUE, FALSE)
  /\ UNCHANGED <<_window, _currentDpi, _title, _minimized, userData,
                 osCreated, osDpi, hasChild, clientRect, windowPos, windowText,
                 posted, quitPosted, assertFailed, titleArg, logical>>

(***************************************************************************)
(* The rest of the interface, and the window's surroundings.               *)
(***************************************************************************)
\* UpdateTitle setting the window text itself and posting nothing.
UpdateTitleDirect(newTitle) ==
  /\ pc = "idle"
  /\ posted < MaxPosted
  /\ _title' = newTitle
  /\ windowText' = newTitle
  /\ titleArg' = IF _window # NullHwnd THEN newTitle ELSE titleArg
  /\ done' = Op("UpdateTitle", NoMsg, newTitle, Cur,
                [Cur EXCEPT !.title = newTitle, !.text = newTitle],
                NoHooks, Zero, FALSE, FALSE, FALSE)
  /\ UNCHANGED <<_window, _currentDpi, _inDpiChange, _minimized, userData,
                 osCreated, osDpi, hasChild, clientRect, windowPos, posted,
                 quitPosted, assertFailed, pc, frame, nested, announcedDpi,
                 logical>>

\* UpdateTitle(newTitle).  PostMessageW reaches the window's queue when
\* there is a window; with no handle it posts to no window.
UpdateTitle(newTitle) ==
  /\ pc = "idle"
  /\ posted < MaxPosted
  /\ _title' = newTitle
  /\ posted' = IF _window # NullHwnd THEN posted + 1 ELSE posted
  /\ titleArg' = IF _window # NullHwnd THEN newTitle ELSE titleArg
  /\ done' = Op("UpdateTitle", NoMsg, newTitle, Cur,
                [Cur EXCEPT !.title = newTitle,
                            !.posted = IF _window # NullHwnd THEN @ + 1 ELSE @],
                NoHooks, Zero, FALSE, FALSE, FALSE)
  /\ UNCHANGED <<_window, _currentDpi, _inDpiChange, _minimized, userData,
                 osCreated, osDpi, hasChild, clientRect, windowPos, windowText,
                 quitPosted, assertFailed, pc, frame, nested, announcedDpi,
                 logical>>

CallUpdateTitle == \E newTitle \in Titles : UpdateTitle(newTitle)

\* The subclass gives the window its child (the hosted content), or takes it away.
ChildChange ==
  /\ pc = "idle"
  /\ osCreated
  /\ hasChild' = ~hasChild
  /\ UNCHANGED <<_window, _currentDpi, _inDpiChange, _title, _minimized,
                 userData, osCreated, osDpi, clientRect, windowPos, windowText,
                 posted, quitPosted, assertFailed, pc, frame, nested,
                 announcedDpi, titleArg, done, logical>>

Next ==
  \/ SendNcCreate
  \/ SendBeforeCreate
  \/ SendSize
  \/ SendDestroy
  \/ SendOther
  \/ DispatchUpdateTitle
  \/ SendDpiChanged
  \/ SendInsideSetWindowPos
  \/ SetWindowPosReturn
  \/ HandleDpiChangeLeave
  \/ CallUpdateTitle
  \/ ChildChange

Spec == Init /\ [][Next]_vars

(***************************************************************************)
(* The size conversion on its own: a created window at each DPI and each   *)
(* client size, and the two overloads of GetLogicalSize applied to it.     *)
(***************************************************************************)
InitLogical ==
  /\ _window = TheWindow
  /\ osDpi \in Dpis
  /\ _currentDpi = osDpi
  /\ _inDpiChange = FALSE
  /\ _title = NoTitle
  /\ _minimized = FALSE
  /\ userData = That
  /\ osCreated = TRUE
  /\ hasChild = FALSE
  /\ clientRect \in { [left |-> 0, top |-> 0, right |-> w, bottom |-> h] :
                        w \in Sides, h \in Sides }
  /\ windowPos = NoPos
  /\ windowText = InitialText
  /\ posted = 0
  /\ quitPosted = 0
  /\ assertFailed = FALSE
  /\ pc = "idle"
  /\ frame = NoFrame
  /\ nested = 0
  /\ announcedDpi = osDpi
  /\ titleArg = NoTitle
  /\ done = NoOp
  /\ logical = NoLogical

CallGetLogicalSize ==
  /\ \E cx \in Sides, cy \in Sides :
       LET physicalSize == [cx |-> cx, cy |-> cy]
       IN  logical' = [call |-> "GetLogicalSize(SIZE)", arg |-> physicalSize,
                       dpi |-> osDpi, result |-> GetLogicalSize(physicalSize)]
  /\ UNCHANGED <<_window, _currentDpi, _inDpiChange, _title, _minimized,
                 userData, osCreated, osDpi, hasChild, clientRect, windowPos,
                 windowText, posted, quitPosted, assertFailed, pc, frame,
                 nested, announcedDpi, titleArg, done>>

CallGetLogicalSizeOfClient ==
  /\ logical' = [call |-> "GetLogicalSize()", arg |-> GetPhysicalSize,
                 dpi |-> osDpi, result |-> GetLogicalSizeOfClient]
  /\ UNCHANGED <<_window, _currentDpi, _inDpiChange, _title, _minimized,
                 userData, osCreated, osDpi, hasChild, clientRect, windowPos,
                 windowText, posted, quitPosted, assertFailed, pc, frame,
                 nested, announcedDpi, titleArg, done>>

NextLogical == CallGetLogicalSize \/ CallGetLogicalSizeOfClient

SpecLogical == InitLogical /\ [][NextLogical]_vars

(***************************************************************************)
(* The properties.                                                         *)
(***************************************************************************)
\* done is a completed call of WndProc that went through MessageHandler.
Handled == done.kind = "WndProc" /\ done.handler
HandledMsg(message) == Handled /\ done.msg.message = message

Calls(fn) == Cardinality({ i \in 1..Len(done.hooks) : done.hooks[i].fn = fn })

\* floor(p / s + 0.5) for s = dpi / USER_DEFAULT_SCREEN_DPI, in exact arithmetic.
FloorRounded(p, dpi) ==
  (2 * p * USER_DEFAULT_SCREEN_DPI + dpi) \div (2 * dpi)

\* C1: GetLogicalSize returns floor(cx / s + 0.5) by floor(cy / s + 0.5) for
\* the scale s = dpi / 96, and GetLogicalSize() is
\* GetLogicalSize(GetPhysicalSize()).
C1_LogicalSizeIsFloorRounded ==
  logical.call # "none" =>
    /\ logical.result =
         [Width |-> FloatFromInt(FloorRounded(logical.arg.cx, logical.dpi)),
          Height |-> FloatFromInt(FloorRounded(logical.arg.cy, logical.dpi))]
    /\ logical.call = "GetLogicalSize()" =>
         /\ logical.arg = GetPhysicalSize
         /\ logical.result = GetLogicalSize(GetPhysicalSize)

\* C2: a WM_SIZE reaches OnMinimize and OnRestore on the edges of _minimized
\* only: SIZE_MINIMIZED calls OnMinimize once iff _minimized was false and
\* leaves it true, SIZE_RESTORED and SIZE_MAXIMIZED call OnRestore once iff
\* it was true and leave it false, any other kind calls no hook and leaves
\* it as it was.
C2_MinimizeRestoreOnEdges ==
  HandledMsg(WM_SIZE) =>
    LET kind == done.msg.wparam
        was == done.pre.minimized
    IN  /\ kind = SIZE_MINIMIZED =>
             /\ done.hooks = IF was THEN NoHooks
                             ELSE << Hook("OnMinimize", 0, 0, done.post) >>
             /\ done.post.minimized
        /\ kind \in {SIZE_RESTORED, SIZE_MAXIMIZED} =>
             /\ Calls("OnRestore") = (IF was THEN 1 ELSE 0)
             /\ Calls("OnMinimize") = 0
             /\ ~done.post.minimized
        /\ kind \notin {SIZE_MINIMIZED, SIZE_RESTORED, SIZE_MAXIMIZED} =>
             /\ done.hooks = NoHooks
             /\ done.post.minimized = was

\* C2's case: a second SIZE_MINIMIZED in a row, and a restore out of the
\* minimized state before it.
C2_Witness ==
  /\ HandledMsg(WM_SIZE)
  /\ done.msg.wparam = SIZE_MINIMIZED
  /\ done.pre.minimized
  /\ _minimized

\* C3: WM_NCCREATE on an instance without a handle sets _window, associates
\* the instance with the window and caches the window's DPI; the assertion
\* on _window never fails; and a WM_NCCREATE for an instance that owns a
\* handle would fail it.
C3_CreationBindsOnce ==
  /\ ~assertFailed
  /\ (done.kind = "WndProc" /\ done.msg.message = WM_NCCREATE) =>
       /\ done.pre.window = NullHwnd
       /\ done.post.window = TheWindow
       /\ done.post.userData = That
       /\ done.post.dpi = done.pre.osDpi
  /\ osCreated => (_window = TheWindow /\ userData = That)
  /\ _window # NullHwnd => WndProc(Cur, Msg(WM_NCCREATE, 0, 0)).assert

C3_Witness ==
  /\ done.kind = "WndProc"
  /\ done.msg.message = WM_NCCREATE
  /\ _window = TheWindow
  /\ _currentDpi = osDpi

\* C4: a message for a window with no instance behind it, and WM_NCCREATE
\* itself, get DefWindowProc's answer without entering MessageHandler, with
\* no hook called and no field changed but those WM_NCCREATE sets; any other
\* message for an associated window enters MessageHandler, whose result is
\* returned.
C4_Routing ==
  done.kind = "WndProc" =>
    LET create == done.msg.message = WM_NCCREATE
        bare == done.pre.userData = NullPtr
    IN  /\ (create \/ bare) =>
             /\ ~done.handler
             /\ done.def
             /\ done.ret = DefWindowProc(done.msg)
             /\ done.hooks = NoHooks
             /\ done.post = IF create
                            THEN [done.pre EXCEPT !.window = done.post.window,
                                                  !.userData = done.post.userData,
                                                  !.dpi = done.post.dpi]
                            ELSE done.pre
        /\ (~create /\ ~bare) =>
             /\ done.handler
             /\ done.ret = IF done.msg.message \in {WM_DPICHANGED, WM_DESTROY}
                           THEN Zero ELSE DefWindowProc(done.msg)

\* C4's case: a message that arrived before WM_NCCREATE.
C4_Witness ==
  /\ done.kind = "WndProc"
  /\ done.msg.message \in BeforeCreateMessages
  /\ done.pre.userData = NullPtr
  /\ ~osCreated

\* C5: UpdateTitle stores the title and posts one CM_UPDATE_TITLE without
\* touching the window text; a handled CM_UPDATE_TITLE sets the text to the
\* title stored then; so with no CM_UPDATE_TITLE left in the queue the text
\* is the argument of the last UpdateTitle on the created window.
C5_TitleFollowsLastUpdate ==
  /\ done.kind = "UpdateTitle" =>
       /\ done.post.title = done.arg
       /\ done.post.text = done.pre.text
       /\ done.pre.window # NullHwnd => done.post.posted = done.pre.posted + 1
       /\ _title = done.arg
       /\ windowText = done.pre.text
  /\ HandledMsg(CM_UPDATE_TITLE) =>
       /\ done.post.text = done.pre.title
       /\ done.post.title = done.pre.title
  /\ (pc = "idle" /\ posted = 0 /\ titleArg # NoTitle) => windowText = titleArg

\* C5's case: a CM_UPDATE_TITLE handled while a later one is still queued
\* shows the later title already.
C5_Witness ==
  /\ HandledMsg(CM_UPDATE_TITLE)
  /\ done.pre.posted = 1
  /\ done.pre.text # done.pre.title
  /\ done.pre.text # InitialText
  /\ windowText = titleArg

\* C6: OnResize(LOWORD(lparam), HIWORD(lparam)) is called once for every
\* WM_SIZE of kind SIZE_RESTORED or SIZE_MAXIMIZED, after OnRestore when the
\* window was minimized, and for no other kind.
C6_ResizeAlwaysFired ==
  HandledMsg(WM_SIZE) =>
    LET resize == Hook("OnResize", LOWORD(done.msg.lparam),
                       HIWORD(done.msg.lparam), done.post)
    IN  IF done.msg.wparam \in {SIZE_RESTORED, SIZE_MAXIMIZED}
        THEN done.hooks = IF done.pre.minimized
                          THEN << Hook("OnRestore", 0, 0, done.post), resize >>
                          ELSE << resize >>
        ELSE Calls("OnResize") = 0

\* C6's case: straight from minimized to maximized.
C6_Witness ==
  /\ HandledMsg(WM_SIZE)
  /\ done.msg.wparam = SIZE_MAXIMIZED
  /\ done.pre.minimized
  /\ Len(done.hooks) = 2
  /\ done.hooks[2].width # done.hooks[2].height

\* C7: between messages the cached DPI is the DPI of the last handled
\* WM_DPICHANGED, or the one read at WM_NCCREATE when there was none; and a
\* handled WM_DPICHANGED has resized the window to the suggested rectangle.
C7_CachedDpiFollowsChange ==
  (pc = "idle" /\ osCreated) =>
    /\ _currentDpi = announcedDpi
    /\ HandledMsg(WM_DPICHANGED) =>
         LET rc == Rects[done.msg.lparam]
         IN  windowPos = [x |-> rc.left, y |-> rc.top,
                          cx |-> rc.right - rc.left, cy |-> rc.bottom - rc.top]

\* C8: WM_DPICHANGED and WM_DESTROY return 0 without DefWindowProc, and
\* WM_DESTROY posts one quit message; every other message ends in
\* DefWindowProc, whose answer is returned; a message that is none of
\* WM_DPICHANGED, WM_DESTROY, WM_SIZE and CM_UPDATE_TITLE calls no hook and
\* leaves _minimized, _currentDpi, _inDpiChange and _title as they were.
C8_FlatDispatch ==
  Handled =>
    LET m == done.msg.message
    IN  /\ m \in {WM_DPICHANGED, WM_DESTROY} => (done.ret = Zero /\ ~done.def)
        /\ done.post.quit = done.pre.quit + (IF m = WM_DESTROY THEN 1 ELSE 0)
        /\ m \notin {WM_DPICHANGED, WM_DESTROY} =>
             (done.def /\ done.ret = DefWindowProc(done.msg))
        /\ m \notin {WM_DPICHANGED, WM_DESTROY, WM_SIZE, CM_UPDATE_TITLE} =>
             /\ done.hooks = NoHooks
             /\ done.post.minimized = done.pre.minimized
             /\ done.post.dpi = done.pre.dpi
             /\ done.post.inDpi = done.pre.inDpi
             /\ done.post.title = done.pre.title

C8_Witness ==
  /\ HandledMsg(WM_DESTROY)
  /\ quitPosted = 1
  /\ done.ret = Zero

\* C9: _inDpiChange is true exactly while HandleDpiChange runs, so it is
\* false between messages; a message the resize delivers is handled with it
\* true and with the cached DPI of before the change, and so are its hooks.
C9_InDpiChangeWhileHandling ==
  /\ _inDpiChange <=> pc # "idle"
  /\ pc = "SetWindowPos" =>
       /\ _currentDpi = frame.pre.dpi
       /\ (done.kind = "WndProc" /\ done.inner) =>
            /\ done.pre.inDpi
            /\ done.pre.dpi = frame.pre.dpi
            /\ \A i \in 1..Len(done.hooks) :
                 done.hooks[i].inDpi /\ done.hooks[i].dpi = frame.pre.dpi

\* C9's case: OnResize called from inside the resize of a DPI change.
C9_Witness ==
  /\ pc = "SetWindowPos"
  /\ done.kind = "WndProc"
  /\ done.inner
  /\ done.msg.message = WM_SIZE
  /\ Len(done.hooks) > 0
  /\ done.hooks[Len(done.hooks)].fn = "OnResize"
  /\ done.hooks[Len(done.hooks)].dpi # frame.uDpi

=============================================================================
